---- MODULE Spec2Model ----
(***************************************************************************)
(* State-machine model of the SkillBite data model: the tenancy, learning  *)
(* and progress tables, the clean() validation hooks of their models, the  *)
(* unique constraints of their Meta classes, and SOPVersion.publish().     *)
(*                                                                         *)
(* A table is a sequence of rows; the primary key of a row is its index.   *)
(* A foreign key holds the primary key of the row it references, or None.  *)
(***************************************************************************)
EXTENDS Integers, Sequences, FiniteSets, TLC

\* ------------------------------------------------------------------ bounds
\* order / version values offered to a write: 1..MaxOrder
MaxOrder == 2
\* rows a behaviour may add or change by its writes, all tables together
MaxChanged == 1
\* optional links (sop, checklist_template, quiz) set on a lesson that is saved
MaxLinks == 0
\* delete requests of a behaviour
MaxDeletes == 2
\* the clock runs from 1 to MaxTime
MaxTime == 3
\* percent / score values offered to validation: 0..PercentLimit + OverLimit
OverLimit == 2

\* ------------------------------------------------------- program constants
\* LessonProgress.clean / QuizAttempt.clean: "> 100"
PercentLimit == 100

\* Python's None: a null foreign key, an unset timestamp
None == 0

\* clean() returned without raising
OK == "ok"

\* db: the persisted tables, one field per model; sopv: an SOPVersion instance
\* held in memory by a caller (NoInstance: none); now: timezone.now();
\* last: what the last operation was given and how it ended; writers: the
\* requests in flight, each between its validation and its write.
VARIABLES db, sopv, now, last, writers

vars == <<db, sopv, now, last, writers>>

Writers == {1, 2}

Tenants == {1, 2}
Orders == 1..MaxOrder

\* What is left at the key of a deleted row, by a delete request or by the
\* cascade of one: a key is not given to another row.
Deleted(how) == [deleted |-> how]
IsDeleted(row) == "deleted" \in DOMAIN row

\* primary keys of a table, and the values of a nullable foreign key into it
Pks(table) == {i \in 1..Len(table) : ~IsDeleted(table[i])}
Ref(table) == {None} \cup Pks(table)

\* ------------------------------------------------------------ seeded rows
\* A consistent database: every row passes the clean() of its model, and users
\* holds a global superuser (tenant None) beside the tenant users.
SeedTenants == << [slug |-> "acme"], [slug |-> "globex"] >>

SeedBranches == << [tenant |-> 1, name |-> "main"], [tenant |-> 2, name |-> "main"] >>

SeedRoles == << [tenant |-> 1, name |-> "cashier"], [tenant |-> 2, name |-> "cashier"] >>

SeedUsers ==
    << [tenant |-> 1, is_superuser |-> FALSE],
       [tenant |-> 2, is_superuser |-> FALSE],
       [tenant |-> None, is_superuser |-> TRUE],
       [tenant |-> 1, is_superuser |-> FALSE] >>

SeedUserBranches == << [user |-> 1, branch |-> 1] >>

SeedUserRoles == << [user |-> 2, role |-> 2] >>

\* course 1 is tenant 2's and course 2 is tenant 1's: a key is not a tenant
SeedCourses ==
    << [tenant |-> 2, title |-> "onboarding", available_to_all_branches |-> TRUE, branches |-> {}],
       [tenant |-> 1, title |-> "onboarding", available_to_all_branches |-> TRUE, branches |-> {}],
       [tenant |-> 1, title |-> "service", available_to_all_branches |-> FALSE, branches |-> {1}] >>

SeedPaths ==
    << [tenant |-> 1, title |-> "barista", available_to_all_branches |-> TRUE, branches |-> {}],
       [tenant |-> 2, title |-> "barista", available_to_all_branches |-> TRUE, branches |-> {}] >>

SeedModules ==
    << [tenant |-> 1, course |-> 2, order |-> 1],
       [tenant |-> 2, course |-> 1, order |-> 2] >>

SeedLessons ==
    << [tenant |-> 1, module |-> 1, order |-> 1, sop |-> 2,
        checklist_template |-> 1, quiz |-> 1],
       [tenant |-> 2, module |-> 2, order |-> 2, sop |-> None,
        checklist_template |-> None, quiz |-> None] >>

SeedSOPs == << [tenant |-> 2, title |-> "opening"], [tenant |-> 1, title |-> "opening"] >>

\* the model whose rows carry the timestamps of TimeStampedModel
SeedSOPVersions ==
    << [sop |-> 1, version |-> 1, content |-> "steps", published_at |-> None,
        created_at |-> 1, updated_at |-> 1] >>

SeedTemplates == << [tenant |-> 1, title |-> "shift"], [tenant |-> 2, title |-> "shift"] >>

SeedItems == << [template |-> 1, order |-> 1], [template |-> 2, order |-> 2] >>

\* Quiz.passing_score: default=70
DefaultPassingScore == 70

SeedQuizzes ==
    << [tenant |-> 1, title |-> "hygiene", passing_score |-> DefaultPassingScore],
       [tenant |-> 2, title |-> "hygiene", passing_score |-> DefaultPassingScore] >>

SeedResources == << [tenant |-> 1, title |-> "policy"] >>

SeedEnrollments == << [tenant |-> 1, user |-> 1, course |-> 2, path |-> None] >>

SeedAssignments ==
    << [tenant |-> 1, kind |-> "course", course |-> 2, path |-> None, target_user |-> None,
        target_branch |-> 1, target_role |-> None, created_by |-> 4] >>

SeedLessonProgress == << [tenant |-> 1, user |-> 1, lesson |-> 1, percent |-> 50] >>

SeedQuizAttempts ==
    << [tenant |-> 2, user |-> 2, quiz |-> 2, score_percent |-> 80, passed |-> TRUE] >>

SeedQuizAnswers == << [attempt |-> 1] >>

\* run 1 is of template 2 and run 2 of template 1: a key is not a template
SeedRuns ==
    << [tenant |-> 2, template |-> 2, branch |-> 2, performed_by |-> 2, approved_by |-> None],
       [tenant |-> 1, template |-> 1, branch |-> 1, performed_by |-> 1, approved_by |-> 4] >>

SeedResults == << [run |-> 1, item |-> 2, is_done |-> TRUE] >>

SeedCertificates == << [tenant |-> 1, user |-> 1, course |-> 2, path |-> None] >>

SeedDb ==
    [ tenants |-> SeedTenants,
      branches |-> SeedBranches, roles |-> SeedRoles, users |-> SeedUsers,
      userbranches |-> SeedUserBranches, userroles |-> SeedUserRoles,
      resources |-> SeedResources, choices |-> << >>,
      enrollments |-> SeedEnrollments, assignments |-> SeedAssignments,
      lessonprogress |-> SeedLessonProgress, attempts |-> SeedQuizAttempts,
      answers |-> SeedQuizAnswers, runs |-> SeedRuns, results |-> SeedResults,
      certificates |-> SeedCertificates,
      courses |-> SeedCourses, paths |-> SeedPaths, lpcs |-> << >>,
      modules |-> SeedModules, lessons |-> SeedLessons,
      sops |-> SeedSOPs, sopversions |-> SeedSOPVersions,
      templates |-> SeedTemplates, items |-> SeedItems,
      quizzes |-> SeedQuizzes, questions |-> << >> ]

\* the tables whose rows carry an order / version under a parent
OrderedTables == {"lpcs", "modules", "lessons", "sopversions", "items", "questions"}

\* rows of table t of d that the seed does not hold: added, or changed
ChangedRows(d, t) ==
    {i \in Pks(d[t]) : i > Len(SeedDb[t]) \/ d[t][i] # SeedDb[t][i]}

RECURSIVE Changed(_, _)
Changed(d, ts) ==
    IF ts = {} THEN 0
    ELSE LET t == CHOOSE x \in ts : TRUE
         IN Cardinality(ChangedRows(d, t)) + Changed(d, ts \ {t})

\* no SOPVersion instance is held
NoInstance ==
    [pk |-> None, sop |-> None, version |-> None, content |-> "", published_at |-> None,
     created_at |-> None, updated_at |-> None]

Outcome(op, model, pk, obj, error) ==
    [op |-> op, model |-> model, pk |-> pk, obj |-> obj, error |-> error]

\* a request that has not begun
Idle == [pc |-> "idle", model |-> "", obj |-> << >>, error |-> OK]

Init ==
    /\ db = SeedDb
    /\ sopv = NoInstance
    /\ now = 1
    /\ writers = [w \in Writers |-> Idle]
    /\ last = Outcome("init", "", None, << >>, OK)

\* ----------------------------------------------------------- foreign keys
FK(table, field, to, on_delete) ==
    [table |-> table, field |-> field, to |-> to, on_delete |-> on_delete]

CASCADE == "CASCADE"
SET_NULL == "SET_NULL"

\* the tables of the models that carry a tenant column
TenantKeyed ==
    {"branches", "roles", "users", "courses", "paths", "modules", "lessons", "resources",
     "sops", "templates", "quizzes", "enrollments", "assignments", "lessonprogress",
     "attempts", "runs", "certificates"}

ForeignKeys ==
    {FK(t, "tenant", "tenants", CASCADE) : t \in TenantKeyed} \cup
    { FK("userbranches", "user", "users", CASCADE),
      FK("userbranches", "branch", "branches", CASCADE),
      FK("userroles", "user", "users", CASCADE),
      FK("userroles", "role", "roles", CASCADE),
      FK("lpcs", "path", "paths", CASCADE),
      FK("lpcs", "course", "courses", CASCADE),
      FK("modules", "course", "courses", CASCADE),
      FK("lessons", "module", "modules", CASCADE),
      FK("lessons", "sop", "sops", SET_NULL),
      FK("lessons", "checklist_template", "templates", SET_NULL),
      FK("lessons", "quiz", "quizzes", SET_NULL),
      FK("sopversions", "sop", "sops", CASCADE),
      FK("items", "template", "templates", CASCADE),
      FK("questions", "quiz", "quizzes", CASCADE),
      FK("choices", "question", "questions", CASCADE),
      FK("enrollments", "user", "users", CASCADE),
      FK("enrollments", "course", "courses", CASCADE),
      FK("enrollments", "path", "paths", CASCADE),
      FK("assignments", "course", "courses", CASCADE),
      FK("assignments", "path", "paths", CASCADE),
      FK("assignments", "target_user", "users", CASCADE),
      FK("assignments", "target_branch", "branches", CASCADE),
      FK("assignments", "target_role", "roles", CASCADE),
      FK("assignments", "created_by", "users", SET_NULL),
      FK("lessonprogress", "user", "users", CASCADE),
      FK("lessonprogress", "lesson", "lessons", CASCADE),
      FK("attempts", "user", "users", CASCADE),
      FK("attempts", "quiz", "quizzes", CASCADE),
      FK("answers", "attempt", "attempts", CASCADE),
      FK("runs", "template", "templates", CASCADE),
      FK("runs", "branch", "branches", SET_NULL),
      FK("runs", "performed_by", "users", CASCADE),
      FK("runs", "approved_by", "users", SET_NULL),
      FK("results", "run", "runs", CASCADE),
      FK("results", "item", "items", CASCADE),
      FK("certificates", "user", "users", CASCADE),
      FK("certificates", "course", "courses", SET_NULL),
      FK("certificates", "path", "paths", SET_NULL) }

\* ---------------------------------------------------------- storage layer
\* A unique constraint is [name, fields]. SQL compares NULL as distinct from
\* every value, so a row with a null key column conflicts with no row.
\* a null key column compared as equal to another null
UniqueViolated_NullsEqual(table, pk, row, fields) ==
    \E i \in Pks(table) : i # pk /\ \A f \in fields : table[i][f] = row[f]

\* the columns of a unique constraint that are declared null=True
NullableKeys == {"course", "path"}

UniqueViolated(table, pk, row, fields) ==
    /\ \A f \in fields \cap NullableKeys : row[f] # None
    /\ \E i \in Pks(table) : i # pk /\ \A f \in fields : table[i][f] = row[f]

\* the first constraint of the Meta list that the row would violate, or OK
RECURSIVE FirstViolated(_, _, _, _)
FirstViolated(table, pk, row, constraints) ==
    IF constraints = << >> THEN OK
    ELSE IF UniqueViolated(table, pk, row, Head(constraints).fields)
         THEN Head(constraints).name
         ELSE FirstViolated(table, pk, row, Tail(constraints))

\* INSERT (pk None) or UPDATE of row pk
Put(table, pk, row) ==
    IF pk = None THEN Append(table, row) ELSE [table EXCEPT ![pk] = row]

\* A validated write of obj to table t, as the admin form does it: clean()
\* has returned cleaned; the unique constraints are checked; the row is
\* written only if both pass. The outcome is recorded in last.
WriteError(t, pk, obj, cleaned, constraints) ==
    IF cleaned # OK THEN cleaned ELSE FirstViolated(db[t], pk, obj, constraints)

\* the row written whatever validation and the constraints said
Write_Unchecked(t, model, pk, obj, cleaned, constraints) ==
    LET error == WriteError(t, pk, obj, cleaned, constraints) IN
    /\ db' = [db EXCEPT ![t] = Put(@, pk, obj)]
    /\ Changed(db', {x \in DOMAIN SeedDb : db'[x] # SeedDb[x]}) <= MaxChanged
    /\ last' = Outcome("save", model, pk, obj, error)

Write(t, model, pk, obj, cleaned, constraints) ==
    LET error == WriteError(t, pk, obj, cleaned, constraints) IN
    /\ db' = IF error = OK THEN [db EXCEPT ![t] = Put(@, pk, obj)] ELSE db
    /\ Changed(db', {x \in DOMAIN SeedDb : db'[x] # SeedDb[x]}) <= MaxChanged
    /\ last' = Outcome("save", model, pk, obj, error)

\* ------------------------------------------------------- learning content
ModuleTenantMsg == "Module tenant must match course tenant."
LessonTenantMsg == "Lesson tenant must match module tenant."
PathCourseTenantMsg == "Path and Course must belong to the same tenant."

\* the constraint left out of Module.Meta
ModuleConstraints_None == << >>

ModuleConstraints == << [name |-> "uq_module_course_order", fields |-> {"course", "order"}] >>

LessonConstraints == << [name |-> "uq_lesson_module_order", fields |-> {"module", "order"}] >>

LearningPathCourseConstraints ==
    << [name |-> "uq_path_course", fields |-> {"path", "course"}],
       [name |-> "uq_path_course_order", fields |-> {"path", "order"}] >>

SOPVersionConstraints == << [name |-> "uq_sop_version", fields |-> {"sop", "version"}] >>

ChecklistItemConstraints ==
    << [name |-> "uq_checklist_item_order", fields |-> {"template", "order"}] >>

QuestionConstraints == << [name |-> "uq_question_quiz_order", fields |-> {"quiz", "order"}] >>

Module_clean(obj) ==
    IF obj.tenant # db.courses[obj.course].tenant THEN ModuleTenantMsg ELSE OK

\* The two checks by kind that follow the tenant check end in "pass".
Lesson_clean(obj) ==
    IF obj.tenant # db.modules[obj.module].tenant THEN LessonTenantMsg ELSE OK

\* the path's tenant compared with the course's key, not the course's tenant
LearningPathCourse_clean_CourseKey(obj) ==
    IF db.paths[obj.path].tenant # obj.course THEN PathCourseTenantMsg ELSE OK

LearningPathCourse_clean(obj) ==
    IF db.paths[obj.path].tenant # db.courses[obj.course].tenant
    THEN PathCourseTenantMsg ELSE OK

ModuleInputs == [tenant : Tenants, course : Pks(db.courses), order : Orders]

LessonInputs ==
    [tenant : Tenants, module : Pks(db.modules), order : Orders, sop : Ref(db.sops),
     checklist_template : Ref(db.templates), quiz : Ref(db.quizzes)]

\* the lessons offered to a save: at most MaxLinks of the optional links set
Links(obj) == {f \in {"sop", "checklist_template", "quiz"} : obj[f] # None}

LessonSaveInputs == {obj \in LessonInputs : Cardinality(Links(obj)) <= MaxLinks}

LearningPathCourseInputs == [path : Pks(db.paths), course : Pks(db.courses), order : Orders]

ChecklistItemInputs == [template : Pks(db.templates), order : Orders]

QuestionInputs == [quiz : Pks(db.quizzes), order : Orders]

\* Quiz defines no clean(): Model.clean checks nothing
Quiz_clean(obj) == OK

QuizInputs == [tenant : Tenants, title : {"hygiene"}, passing_score : 0..(PercentLimit + OverLimit)]

\* Course.clean: the only check ends in "pass"
Course_clean(pk, obj) ==
    IF ~obj.available_to_all_branches /\ pk # None /\ Cardinality(obj.branches) = 0
    THEN OK ELSE OK

\* LearningPath defines no clean(): Model.clean checks nothing
LearningPath_clean(obj) == OK

Titles == {"onboarding", "service"}

CourseInputs ==
    [tenant : Tenants, title : Titles, available_to_all_branches : BOOLEAN,
     branches : SUBSET Pks(db.branches)]

\* the courses offered to a save: open to all branches, none listed
CourseSaveInputs == {obj \in CourseInputs : obj.available_to_all_branches /\ obj.branches = {}}

CourseConstraints == << [name |-> "uq_course_tenant_title", fields |-> {"tenant", "title"}] >>

SaveCourse(pk, obj) ==
    /\ Write("courses", "Course", pk, obj, Course_clean(pk, obj), CourseConstraints)
    /\ UNCHANGED <<sopv, now, writers>>

LearningPathInputs == CourseInputs

SaveModule(pk, obj) ==
    /\ Write("modules", "Module", pk, obj, Module_clean(obj), ModuleConstraints)
    /\ UNCHANGED <<sopv, now, writers>>

SaveLesson(pk, obj) ==
    /\ Write("lessons", "Lesson", pk, obj, Lesson_clean(obj), LessonConstraints)
    /\ UNCHANGED <<sopv, now, writers>>

SaveLearningPathCourse(pk, obj) ==
    /\ Write("lpcs", "LearningPathCourse", pk, obj, LearningPathCourse_clean(obj),
             LearningPathCourseConstraints)
    /\ UNCHANGED <<sopv, now, writers>>

\* ChecklistItem and Question define no clean()
SaveChecklistItem(pk, obj) ==
    /\ Write("items", "ChecklistItem", pk, obj, OK, ChecklistItemConstraints)
    /\ UNCHANGED <<sopv, now, writers>>

SaveQuestion(pk, obj) ==
    /\ Write("questions", "Question", pk, obj, OK, QuestionConstraints)
    /\ UNCHANGED <<sopv, now, writers>>

\* ---------------------------------------------------------------- tenancy
UserTenantMsg == "Non-superuser accounts must belong to a tenant."
UserBranchTenantMsg == "User and Branch must belong to the same tenant."
UserRoleTenantMsg == "User and Role must belong to the same tenant."

\* the superuser exemption left out
User_clean_NoExemption(obj) == IF obj.tenant = None THEN UserTenantMsg ELSE OK

User_clean(obj) == IF ~obj.is_superuser /\ obj.tenant = None THEN UserTenantMsg ELSE OK

\* "if self.user.tenant_id and self.branch.tenant_id and ...": a null tenant
\* is falsy, so the comparison is made only when both tenants are set
UserBranch_clean(obj) ==
    IF db.users[obj.user].tenant # None /\ db.branches[obj.branch].tenant # None
       /\ db.users[obj.user].tenant # db.branches[obj.branch].tenant
    THEN UserBranchTenantMsg ELSE OK

UserRole_clean(obj) ==
    IF db.users[obj.user].tenant # None /\ db.roles[obj.role].tenant # None
       /\ db.users[obj.user].tenant # db.roles[obj.role].tenant
    THEN UserRoleTenantMsg ELSE OK

UserInputs == [tenant : {None} \cup Tenants, is_superuser : BOOLEAN]

UserBranchInputs == [user : Pks(db.users), branch : Pks(db.branches)]

UserRoleInputs == [user : Pks(db.users), role : Pks(db.roles)]

SaveUser(pk, obj) ==
    /\ Write("users", "User", pk, obj, User_clean(obj), << >>)
    /\ UNCHANGED <<sopv, now, writers>>

\* --------------------------------------------------------------- progress
EnrollmentOneOfMsg == "Enrollment must have exactly one of course or path."
EnrollmentUserMsg == "Enrollment tenant must match user tenant."
EnrollmentCourseMsg == "Enrollment tenant must match course tenant."
EnrollmentPathMsg == "Enrollment tenant must match path tenant."

Enrollment_clean(obj) ==
    IF (obj.course = None /\ obj.path = None) \/ (obj.course # None /\ obj.path # None)
    THEN EnrollmentOneOfMsg
    ELSE IF db.users[obj.user].tenant # None /\ obj.tenant # None
            /\ db.users[obj.user].tenant # obj.tenant
    THEN EnrollmentUserMsg
    ELSE IF obj.course # None /\ db.courses[obj.course].tenant # obj.tenant
    THEN EnrollmentCourseMsg
    ELSE IF obj.path # None /\ db.paths[obj.path].tenant # obj.tenant
    THEN EnrollmentPathMsg
    ELSE OK

AssignmentCourseKindMsg == "Course assignment must have course set and path empty."
AssignmentPathKindMsg == "Path assignment must have path set and course empty."
AssignmentTargetMsg == "Assignment must target exactly one of user, branch, or role."
AssignmentCourseMsg == "Assignment tenant must match course tenant."
AssignmentPathMsg == "Assignment tenant must match path tenant."
AssignmentUserMsg == "Assignment tenant must match user tenant."
AssignmentBranchMsg == "Assignment tenant must match branch tenant."
AssignmentRoleMsg == "Assignment tenant must match role tenant."

\* Assignment.Kind
COURSE == "course"
PATH == "path"

\* target_role left out of the list of targets
Targets_NoRole(obj) == {f \in {"target_user", "target_branch"} : obj[f] # None}

\* sum(1 for t in targets if t is not None)
Targets(obj) == {f \in {"target_user", "target_branch", "target_role"} : obj[f] # None}

\* the two checks of "kind content linkage"
CourseKindBroken(obj) == obj.kind = COURSE /\ (obj.course = None \/ obj.path # None)

\* a path assignment that only requires path to be set
PathKindBroken_PathOnly(obj) == obj.kind = PATH /\ obj.path = None

PathKindBroken(obj) == obj.kind = PATH /\ (obj.path = None \/ obj.course # None)

\* the tenant of the course compared before the targets are counted
Assignment_clean_CourseTenantFirst(obj) ==
    IF CourseKindBroken(obj) THEN AssignmentCourseKindMsg
    ELSE IF PathKindBroken(obj) THEN AssignmentPathKindMsg
    ELSE IF obj.course # None /\ db.courses[obj.course].tenant # obj.tenant
    THEN AssignmentCourseMsg
    ELSE IF Cardinality(Targets(obj)) # 1
    THEN AssignmentTargetMsg
    ELSE IF obj.path # None /\ db.paths[obj.path].tenant # obj.tenant
    THEN AssignmentPathMsg
    ELSE IF obj.target_user # None /\ db.users[obj.target_user].tenant # obj.tenant
    THEN AssignmentUserMsg
    ELSE IF obj.target_branch # None /\ db.branches[obj.target_branch].tenant # obj.tenant
    THEN AssignmentBranchMsg
    ELSE IF obj.target_role # None /\ db.roles[obj.target_role].tenant # obj.tenant
    THEN AssignmentRoleMsg
    ELSE OK

Assignment_clean(obj) ==
    IF CourseKindBroken(obj) THEN AssignmentCourseKindMsg
    ELSE IF PathKindBroken(obj) THEN AssignmentPathKindMsg
    ELSE IF Cardinality(Targets(obj)) # 1
    THEN AssignmentTargetMsg
    ELSE IF obj.course # None /\ db.courses[obj.course].tenant # obj.tenant
    THEN AssignmentCourseMsg
    ELSE IF obj.path # None /\ db.paths[obj.path].tenant # obj.tenant
    THEN AssignmentPathMsg
    ELSE IF obj.target_user # None /\ db.users[obj.target_user].tenant # obj.tenant
    THEN AssignmentUserMsg
    ELSE IF obj.target_branch # None /\ db.branches[obj.target_branch].tenant # obj.tenant
    THEN AssignmentBranchMsg
    ELSE IF obj.target_role # None /\ db.roles[obj.target_role].tenant # obj.tenant
    THEN AssignmentRoleMsg
    ELSE OK

LessonProgressUserMsg == "LessonProgress tenant must match user tenant."
LessonProgressLessonMsg == "LessonProgress tenant must match lesson tenant."
PercentMsg == "percent must be between 0 and 100."

LessonProgress_clean(obj) ==
    IF db.users[obj.user].tenant # obj.tenant THEN LessonProgressUserMsg
    ELSE IF db.lessons[obj.lesson].tenant # obj.tenant THEN LessonProgressLessonMsg
    ELSE IF obj.percent > PercentLimit THEN PercentMsg
    ELSE OK

QuizAttemptUserMsg == "QuizAttempt tenant must match user tenant."
QuizAttemptQuizMsg == "QuizAttempt tenant must match quiz tenant."
ScorePercentMsg == "score_percent must be between 0 and 100."

\* the bound tested with >= instead of >
QuizAttempt_clean_Inclusive(obj) ==
    IF db.users[obj.user].tenant # obj.tenant THEN QuizAttemptUserMsg
    ELSE IF db.quizzes[obj.quiz].tenant # obj.tenant THEN QuizAttemptQuizMsg
    ELSE IF obj.score_percent >= PercentLimit THEN ScorePercentMsg
    ELSE OK

\* an attempt refused when passed disagrees with the score and the quiz
QuizAttempt_clean_Derived(obj) ==
    IF db.users[obj.user].tenant # obj.tenant THEN QuizAttemptUserMsg
    ELSE IF db.quizzes[obj.quiz].tenant # obj.tenant THEN QuizAttemptQuizMsg
    ELSE IF obj.score_percent > PercentLimit THEN ScorePercentMsg
    ELSE IF obj.passed # (obj.score_percent >= db.quizzes[obj.quiz].passing_score)
    THEN "passed must follow score_percent."
    ELSE OK

QuizAttempt_clean(obj) ==
    IF db.users[obj.user].tenant # obj.tenant THEN QuizAttemptUserMsg
    ELSE IF db.quizzes[obj.quiz].tenant # obj.tenant THEN QuizAttemptQuizMsg
    ELSE IF obj.score_percent > PercentLimit THEN ScorePercentMsg
    ELSE OK

ChecklistRunTemplateMsg == "ChecklistRun tenant must match template tenant."
ChecklistRunPerformerMsg == "ChecklistRun tenant must match performer tenant."
ChecklistRunBranchMsg == "ChecklistRun tenant must match branch tenant."
ChecklistRunApproverMsg == "ChecklistRun tenant must match approver tenant."

\* the approver is not checked
ChecklistRun_clean_NoApprover(obj) ==
    IF db.templates[obj.template].tenant # obj.tenant THEN ChecklistRunTemplateMsg
    ELSE IF db.users[obj.performed_by].tenant # obj.tenant THEN ChecklistRunPerformerMsg
    ELSE IF obj.branch # None /\ db.branches[obj.branch].tenant # obj.tenant
    THEN ChecklistRunBranchMsg
    ELSE OK

ChecklistRun_clean(obj) ==
    IF db.templates[obj.template].tenant # obj.tenant THEN ChecklistRunTemplateMsg
    ELSE IF db.users[obj.performed_by].tenant # obj.tenant THEN ChecklistRunPerformerMsg
    ELSE IF obj.branch # None /\ db.branches[obj.branch].tenant # obj.tenant
    THEN ChecklistRunBranchMsg
    ELSE IF obj.approved_by # None /\ db.users[obj.approved_by].tenant # obj.tenant
    THEN ChecklistRunApproverMsg
    ELSE OK

CertificateOneOfMsg == "Certificate must have exactly one of course or path."
CertificateUserMsg == "Certificate tenant must match user tenant."
CertificateCourseMsg == "Certificate tenant must match course tenant."
CertificatePathMsg == "Certificate tenant must match path tenant."

\* only the case of neither course nor path is refused
Certificate_clean_NeitherOnly(obj) ==
    IF obj.course = None /\ obj.path = None THEN CertificateOneOfMsg
    ELSE IF db.users[obj.user].tenant # obj.tenant THEN CertificateUserMsg
    ELSE IF obj.course # None /\ db.courses[obj.course].tenant # obj.tenant
    THEN CertificateCourseMsg
    ELSE IF obj.path # None /\ db.paths[obj.path].tenant # obj.tenant
    THEN CertificatePathMsg
    ELSE OK

Certificate_clean(obj) ==
    IF (obj.course = None /\ obj.path = None) \/ (obj.course # None /\ obj.path # None)
    THEN CertificateOneOfMsg
    ELSE IF db.users[obj.user].tenant # obj.tenant THEN CertificateUserMsg
    ELSE IF obj.course # None /\ db.courses[obj.course].tenant # obj.tenant
    THEN CertificateCourseMsg
    ELSE IF obj.path # None /\ db.paths[obj.path].tenant # obj.tenant
    THEN CertificatePathMsg
    ELSE OK

Percents == 0..(PercentLimit + OverLimit)

\* kind is a plain character column: a blank and a value outside Kind.choices
\* can be assigned to it
Kinds == {COURSE, PATH, "", "bundle"}

EnrollmentInputs ==
    [tenant : Tenants, user : Pks(db.users), course : Ref(db.courses), path : Ref(db.paths)]

AssignmentInputs ==
    [tenant : Tenants, kind : Kinds, course : Ref(db.courses), path : Ref(db.paths),
     target_user : Ref(db.users), target_branch : Ref(db.branches),
     target_role : Ref(db.roles), created_by : Ref(db.users)]

LessonProgressInputs ==
    [tenant : Tenants, user : Pks(db.users), lesson : Pks(db.lessons), percent : Percents]

QuizAttemptInputs ==
    [tenant : Tenants, user : Pks(db.users), quiz : Pks(db.quizzes),
     score_percent : Percents, passed : BOOLEAN]

ChecklistRunInputs ==
    [tenant : Tenants, template : Pks(db.templates), branch : Ref(db.branches),
     performed_by : Pks(db.users), approved_by : Ref(db.users)]

CertificateInputs ==
    [tenant : Tenants, user : Pks(db.users), course : Ref(db.courses), path : Ref(db.paths)]

ResultTemplateMsg == "ChecklistItemResult item must belong to the same template as the run."

\* the item's template compared with the run's key, not the run's template
ChecklistItemResult_clean_RunKey(obj) ==
    IF db.items[obj.item].template # obj.run THEN ResultTemplateMsg ELSE OK

ChecklistItemResult_clean(obj) ==
    IF db.items[obj.item].template # db.runs[obj.run].template
    THEN ResultTemplateMsg ELSE OK

ChecklistItemResultInputs == [run : Pks(db.runs), item : Pks(db.items), is_done : BOOLEAN]

EnrollmentConstraints ==
    << [name |-> "uq_enroll_user_course", fields |-> {"user", "course"}],
       [name |-> "uq_enroll_user_path", fields |-> {"user", "path"}] >>

LessonProgressConstraints ==
    << [name |-> "uq_user_lesson_progress", fields |-> {"user", "lesson"}] >>

ChecklistItemResultConstraints == << [name |-> "uq_run_item", fields |-> {"run", "item"}] >>

\* the percents offered to a save: the default and the limit
SavedPercents == {0, PercentLimit}

LessonProgressSaveInputs == {obj \in LessonProgressInputs : obj.percent \in SavedPercents}

SaveEnrollment(pk, obj) ==
    /\ Write("enrollments", "Enrollment", pk, obj, Enrollment_clean(obj), EnrollmentConstraints)
    /\ UNCHANGED <<sopv, now, writers>>

SaveLessonProgress(pk, obj) ==
    /\ Write("lessonprogress", "LessonProgress", pk, obj, LessonProgress_clean(obj),
             LessonProgressConstraints)
    /\ UNCHANGED <<sopv, now, writers>>

SaveChecklistItemResult(pk, obj) ==
    /\ Write("results", "ChecklistItemResult", pk, obj, ChecklistItemResult_clean(obj),
             ChecklistItemResultConstraints)
    /\ UNCHANGED <<sopv, now, writers>>

\* ---------------------------------------------------------------- deletes
\* every foreign key treated as a cascade
Cascades_All == ForeignKeys

Cascades == {fk \in ForeignKeys : fk.on_delete = CASCADE}

\* the rows a cascade reaches from the rows of doomed, as <<table, pk>>
RECURSIVE Collect(_)
Collect(doomed) ==
    LET reached ==
          UNION { {<<fk.table, i>> : i \in {j \in Pks(db[fk.table]) :
                                              <<fk.to, db[fk.table][j][fk.field]>> \in doomed}}
                  : fk \in Cascades }
    IN IF reached \subseteq doomed THEN doomed ELSE Collect(doomed \cup reached)

\* a row that stays: its SET_NULL keys to doomed rows are set to null, and
\* the doomed branches leave its many-to-many set
Unlinked(t, row, doomed) ==
    LET nulled == {fk.field : fk \in {k \in ForeignKeys :
                      /\ k.table = t
                      /\ k.on_delete = SET_NULL
                      /\ <<k.to, row[k.field]>> \in doomed}}
        kept == [f \in DOMAIN row |-> IF f \in nulled THEN None ELSE row[f]]
    IN IF t \in {"courses", "paths"}
       THEN [kept EXCEPT !.branches = {b \in @ : <<"branches", b>> \notin doomed}]
       ELSE kept

\* the rows deleted by request so far
Requested ==
    UNION { {<<u, i>> : i \in {j \in 1..Len(db[u]) : db[u][j] = Deleted("request")}}
            : u \in DOMAIN db }

\* instance.delete() on row pk of table t, in one transaction
Delete(t, pk) ==
    /\ Cardinality(Requested) < MaxDeletes
    /\ \E doomed \in {Collect({<<t, pk>>})} :
         db' = [u \in DOMAIN db |->
                  [i \in 1..Len(db[u]) |->
                     IF <<u, i>> = <<t, pk>> THEN Deleted("request")
                     ELSE IF <<u, i>> \in doomed THEN Deleted("cascade")
                     ELSE IF IsDeleted(db[u][i]) THEN db[u][i]
                     ELSE Unlinked(u, db[u][i], doomed)]]
    /\ last' = Outcome("delete", t, pk, << >>, OK)
    /\ UNCHANGED <<sopv, now, writers>>

\* the certificates offered to a save: those of the user who holds one
CertificateSaveInputs == {obj \in CertificateInputs : obj.user = SeedCertificates[1].user}

\* a certificate is issued, before any delete
SaveCertificate(obj) ==
    /\ Requested = {}
    /\ Write("certificates", "Certificate", None, obj, Certificate_clean(obj), << >>)
    /\ UNCHANGED <<sopv, now, writers>>

\* ------------------------------------------------------------ raw writes
\* the insert preceded by the clean() of the model
BulkCreateModule_Validated(obj) ==
    LET error == WriteError("modules", None, obj, Module_clean(obj), ModuleConstraints) IN
    /\ db' = IF error = OK THEN [db EXCEPT !.modules = Append(@, obj)] ELSE db
    /\ Changed(db', {"modules"}) <= MaxChanged
    /\ last' = Outcome("bulk_create", "Module", None, obj, error)
    /\ UNCHANGED <<sopv, now, writers>>

\* Module.objects.bulk_create([obj]), or a raw INSERT: clean() is not called;
\* the storage checks what Module.Meta declares, the unique constraint
BulkCreateModule(obj) ==
    LET error == FirstViolated(db.modules, None, obj, ModuleConstraints) IN
    /\ db' = IF error = OK THEN [db EXCEPT !.modules = Append(@, obj)] ELSE db
    /\ Changed(db', {"modules"}) <= MaxChanged
    /\ last' = Outcome("bulk_create", "Module", None, obj, error)
    /\ UNCHANGED <<sopv, now, writers>>

\* ----------------------------------------------------- concurrent writers
\* Each request validates its instance against the rows it can read, and
\* writes it in a later step; another request may write in between. The
\* storage checks the unique constraints again when the row is written.

\* a storage that does not enforce the constraints
StorageError_Unenforced(t, obj, constraints) == OK

StorageError(t, obj, constraints) == FirstViolated(db[t], None, obj, constraints)

\* full_clean(): clean(), then the unique constraints against the rows read
Validate(w, t, model, obj, cleaned, constraints) ==
    LET error == WriteError(t, None, obj, cleaned, constraints) IN
    /\ writers[w].pc = "idle"
    /\ writers' = [writers EXCEPT ![w] =
                     [pc |-> IF error = OK THEN "validated" ELSE "invalid",
                      model |-> model, obj |-> obj, error |-> error]]
    /\ UNCHANGED <<db, sopv, now, last>>

\* save(): the INSERT, accepted or refused by the storage
Insert(w, t, model, constraints) ==
    LET error == StorageError(t, writers[w].obj, constraints) IN
    /\ writers[w].pc = "validated"
    /\ writers[w].model = model
    /\ db' = IF error = OK THEN [db EXCEPT ![t] = Append(@, writers[w].obj)] ELSE db
    /\ writers' = [writers EXCEPT ![w].pc = IF error = OK THEN "saved" ELSE "failed",
                                  ![w].error = error]
    /\ UNCHANGED <<sopv, now, last>>

ValidateModule(w, obj) ==
    Validate(w, "modules", "Module", obj, Module_clean(obj), ModuleConstraints)

ValidateEnrollment(w, obj) ==
    Validate(w, "enrollments", "Enrollment", obj, Enrollment_clean(obj), EnrollmentConstraints)

InsertModule(w) == Insert(w, "modules", "Module", ModuleConstraints)

InsertEnrollment(w) == Insert(w, "enrollments", "Enrollment", EnrollmentConstraints)

\* ------------------------------------------------------------ validation
\* The models whose clean() is exercised, and the instances offered to each.
Inputs(model) ==
    CASE model = "Course" -> CourseInputs
      [] model = "LearningPath" -> LearningPathInputs
      [] model = "LearningPathCourse" -> LearningPathCourseInputs
      [] model = "Module" -> ModuleInputs
      [] model = "Lesson" -> LessonInputs
      [] model = "Enrollment" -> EnrollmentInputs
      [] model = "Assignment" -> AssignmentInputs
      [] model = "LessonProgress" -> LessonProgressInputs
      [] model = "QuizAttempt" -> QuizAttemptInputs
      [] model = "ChecklistRun" -> ChecklistRunInputs
      [] model = "Certificate" -> CertificateInputs
      [] model = "User" -> UserInputs
      [] model = "Quiz" -> QuizInputs
      [] model = "UserBranch" -> UserBranchInputs
      [] model = "UserRole" -> UserRoleInputs

CleanedModels ==
    {"Course", "LearningPath", "LearningPathCourse", "Module", "Lesson", "Enrollment",
     "Assignment", "LessonProgress", "QuizAttempt", "ChecklistRun", "Certificate",
     "User", "UserBranch", "UserRole", "Quiz"}

\* an instance has been constructed and not yet validated
Constructed(model) == last.op = "new" /\ last.model = model

\* instance.clean() on the constructed instance: nothing is written
Cleaned(error) ==
    /\ last' = Outcome("clean", last.model, last.pk, last.obj, error)
    /\ UNCHANGED <<db, sopv, now, writers>>

CleanCourse == Constructed("Course") /\ Cleaned(Course_clean(last.pk, last.obj))

CleanLearningPath == Constructed("LearningPath") /\ Cleaned(LearningPath_clean(last.obj))

CleanLearningPathCourse ==
    Constructed("LearningPathCourse") /\ Cleaned(LearningPathCourse_clean(last.obj))

CleanModule == Constructed("Module") /\ Cleaned(Module_clean(last.obj))

CleanLesson == Constructed("Lesson") /\ Cleaned(Lesson_clean(last.obj))

CleanEnrollment == Constructed("Enrollment") /\ Cleaned(Enrollment_clean(last.obj))

CleanAssignment == Constructed("Assignment") /\ Cleaned(Assignment_clean(last.obj))

CleanLessonProgress == Constructed("LessonProgress") /\ Cleaned(LessonProgress_clean(last.obj))

CleanQuizAttempt == Constructed("QuizAttempt") /\ Cleaned(QuizAttempt_clean(last.obj))

CleanChecklistRun == Constructed("ChecklistRun") /\ Cleaned(ChecklistRun_clean(last.obj))

CleanCertificate == Constructed("Certificate") /\ Cleaned(Certificate_clean(last.obj))

CleanQuiz == Constructed("Quiz") /\ Cleaned(Quiz_clean(last.obj))

CleanUser == Constructed("User") /\ Cleaned(User_clean(last.obj))

CleanUserBranch == Constructed("UserBranch") /\ Cleaned(UserBranch_clean(last.obj))

CleanUserRole == Constructed("UserRole") /\ Cleaned(UserRole_clean(last.obj))

\* ------------------------------------------------------------- SOPVersion
Contents == {"steps", "revised steps"}

SOPVersionInputs ==
    [sop : Pks(db.sops), version : Orders, content : Contents, published_at : {None, now}]

\* The form has no field for created_at (editable=False) nor for updated_at
\* (auto_now): a new row gets created_at from the default, an edited row
\* keeps the one it has, and both get updated_at from the save.
FormInstance(pk, obj) ==
    [sop |-> obj.sop, version |-> obj.version, content |-> obj.content,
     published_at |-> obj.published_at,
     created_at |-> IF pk = None THEN now ELSE db.sopversions[pk].created_at,
     updated_at |-> now]

\* the admin form's write of an SOPVersion
SaveSOPVersion(pk, obj) ==
    /\ Write("sopversions", "SOPVersion", pk, FormInstance(pk, obj), OK, SOPVersionConstraints)
    /\ UNCHANGED <<sopv, now, writers>>

\* the row an instance is stored as
SOPVersionRow(inst) ==
    [sop |-> inst.sop, version |-> inst.version, content |-> inst.content,
     published_at |-> inst.published_at, created_at |-> inst.created_at,
     updated_at |-> inst.updated_at]

\* SOPVersion(sop=..., version=..., content=...): an unsaved instance
NewSOPVersion(sop, version, content) ==
    /\ sopv' = [pk |-> None, sop |-> sop, version |-> version, content |-> content,
                published_at |-> None, created_at |-> now, updated_at |-> None]
    /\ last' = Outcome("new", "SOPVersion", None, SOPVersionRow(sopv'), OK)
    /\ UNCHANGED <<db, now, writers>>

\* SOPVersion.objects.get(pk=pk)
GetSOPVersion(pk) ==
    LET row == db.sopversions[pk] IN
    /\ sopv' = [pk |-> pk, sop |-> row.sop, version |-> row.version,
                content |-> row.content, published_at |-> row.published_at,
                created_at |-> row.created_at, updated_at |-> row.updated_at]
    /\ last' = Outcome("get", "SOPVersion", pk, row, OK)
    /\ UNCHANGED <<db, now, writers>>

\* publish() that keeps the timestamp of an instance already published
publish_Once(inst) ==
    IF inst.published_at = None THEN [inst EXCEPT !.published_at = now] ELSE inst

\* SOPVersion.publish(): sets the field on the instance and nothing else
publish(inst) == [inst EXCEPT !.published_at = now]

\* last.obj is the instance as it was before the call
Publish ==
    /\ sopv # NoInstance
    /\ sopv' = publish(sopv)
    /\ last' = Outcome("publish", "SOPVersion", sopv.pk, SOPVersionRow(sopv), OK)
    /\ UNCHANGED <<db, now, writers>>

\* created_at declared auto_now as well
pre_save_Both(inst) == [inst EXCEPT !.updated_at = now, !.created_at = now]

\* auto_now=True: the field is set on the instance by every save, before the
\* row is written; created_at has a default and is left as the instance has it
pre_save(inst) == [inst EXCEPT !.updated_at = now]

\* sopv.save(); SOPVersion defines no clean(); a saved new instance learns its pk
SaveInstance ==
    /\ sopv # NoInstance
    /\ Write("sopversions", "SOPVersion", sopv.pk, SOPVersionRow(pre_save(sopv)), OK,
             SOPVersionConstraints)
    /\ sopv' = IF last'.error = OK /\ sopv.pk = None
               THEN [pre_save(sopv) EXCEPT !.pk = Len(db'.sopversions)] ELSE pre_save(sopv)
    /\ UNCHANGED <<now, writers>>

\* time passes
Tick ==
    /\ now < MaxTime
    /\ now' = now + 1
    /\ last' = Outcome("tick", "", None, << >>, OK)
    /\ UNCHANGED <<db, sopv, writers>>

\* ---------------------------------------------------------- specifications
\* clean() called on a constructed instance of each model that is validated:
\* a new one, or (Course, whose clean() reads pk) a stored one being edited
InitClean ==
    /\ db = SeedDb
    /\ sopv = NoInstance
    /\ now = 1
    /\ writers = [w \in Writers |-> Idle]
    /\ \E model \in CleanedModels :
         \E obj \in Inputs(model) :
           \E pk \in (IF model = "Course" THEN Ref(db.courses) ELSE {None}) :
             last = Outcome("new", model, pk, obj, OK)

NextClean ==
    \/ CleanCourse
    \/ CleanLearningPath
    \/ CleanLearningPathCourse
    \/ CleanModule
    \/ CleanLesson
    \/ CleanEnrollment
    \/ CleanAssignment
    \/ CleanLessonProgress
    \/ CleanQuizAttempt
    \/ CleanChecklistRun
    \/ CleanCertificate
    \/ CleanUser
    \/ CleanUserBranch
    \/ CleanUserRole
    \/ CleanQuiz

SpecClean == InitClean /\ [][NextClean]_vars

\* validated writes to the ordered tables
NextContent ==
    \/ \E pk \in Ref(db.modules), obj \in ModuleInputs : SaveModule(pk, obj)
    \/ \E pk \in Ref(db.lessons), obj \in LessonSaveInputs : SaveLesson(pk, obj)
    \/ \E pk \in Ref(db.lpcs), obj \in LearningPathCourseInputs : SaveLearningPathCourse(pk, obj)
    \/ \E pk \in Ref(db.items), obj \in ChecklistItemInputs : SaveChecklistItem(pk, obj)
    \/ \E pk \in Ref(db.questions), obj \in QuestionInputs : SaveQuestion(pk, obj)
    \/ \E pk \in Ref(db.sopversions), obj \in SOPVersionInputs : SaveSOPVersion(pk, obj)

SpecContent == Init /\ [][NextContent]_vars

\* validated writes to the progress tables that carry a unique constraint
NextProgress ==
    \/ \E pk \in Ref(db.enrollments), obj \in EnrollmentInputs : SaveEnrollment(pk, obj)
    \/ \E pk \in Ref(db.lessonprogress), obj \in LessonProgressSaveInputs :
          SaveLessonProgress(pk, obj)
    \/ \E pk \in Ref(db.results), obj \in ChecklistItemResultInputs :
          SaveChecklistItemResult(pk, obj)

SpecProgress == Init /\ [][NextProgress]_vars

\* validated creates and updates of a course, a module and a user
NextValidated ==
    \/ \E pk \in Ref(db.courses), obj \in CourseSaveInputs : SaveCourse(pk, obj)
    \/ \E pk \in Ref(db.modules), obj \in ModuleInputs : SaveModule(pk, obj)
    \/ \E pk \in Ref(db.users), obj \in UserInputs : SaveUser(pk, obj)

SpecValidated == Init /\ [][NextValidated]_vars

\* writes of a module, through validation and past it
NextRaw ==
    \/ \E pk \in Ref(db.modules), obj \in ModuleInputs : SaveModule(pk, obj)
    \/ \E obj \in ModuleInputs : BulkCreateModule(obj)

SpecRaw == Init /\ [][NextRaw]_vars

\* certificates are issued, then rows of any table are deleted
NextDelete ==
    \/ \E obj \in CertificateSaveInputs : SaveCertificate(obj)
    \/ \E t \in DOMAIN db : \E pk \in Pks(db[t]) : Delete(t, pk)

SpecDelete == Init /\ [][NextDelete]_vars

\* two requests that each validate and then write
NextRace ==
    \/ \E w \in Writers, obj \in ModuleInputs : ValidateModule(w, obj)
    \/ \E w \in Writers, obj \in EnrollmentInputs : ValidateEnrollment(w, obj)
    \/ \E w \in Writers : InsertModule(w)
    \/ \E w \in Writers : InsertEnrollment(w)

SpecRace == Init /\ [][NextRace]_vars

\* the life of an SOPVersion instance
NextSOPVersion ==
    \/ \E sop \in Pks(db.sops), version \in Orders, content \in Contents :
          NewSOPVersion(sop, version, content)
    \/ \E pk \in Pks(db.sopversions) : GetSOPVersion(pk)
    \/ Publish
    \/ SaveInstance
    \/ Tick

SpecSOPVersion == Init /\ [][NextSOPVersion]_vars

\* ============================================================= properties
\* clean() has been called on an instance of model; it is last.obj
WasCleaned(model) == last.op = "clean" /\ last.model = model

\* the tenant of the row a foreign key references; None for a null key
TenantOf(table, pk) == IF pk = None THEN None ELSE db[table][pk].tenant

\* ---- C1
\* C1: clean() of a Module, a Lesson or a LearningPathCourse fails with that
\* relation's tenant-mismatch message whenever the child's tenant (for
\* LearningPathCourse: the path's) differs from the parent's (the course's),
\* and does not fail on the tenant check when the two are equal.
C1_ChildTenantMatchesParent ==
    /\ WasCleaned("Module") =>
         IF last.obj.tenant # TenantOf("courses", last.obj.course)
         THEN last.error = ModuleTenantMsg ELSE last.error = OK
    /\ WasCleaned("Lesson") =>
         IF last.obj.tenant # TenantOf("modules", last.obj.module)
         THEN last.error = LessonTenantMsg ELSE last.error = OK
    /\ WasCleaned("LearningPathCourse") =>
         IF TenantOf("paths", last.obj.path) # TenantOf("courses", last.obj.course)
         THEN last.error = PathCourseTenantMsg ELSE last.error = OK

\* a path of one tenant linked to a course of the other was refused
C1_Witness ==
    /\ WasCleaned("LearningPathCourse")
    /\ TenantOf("paths", last.obj.path) # TenantOf("courses", last.obj.course)
    /\ last.error = PathCourseTenantMsg

\* ---- C2
\* the relations of a progress model that clean() compares with the
\* instance's tenant, each with the message that names it
Relations(model) ==
    CASE model = "LessonProgress" ->
           { [field |-> "user", table |-> "users", msg |-> LessonProgressUserMsg],
             [field |-> "lesson", table |-> "lessons", msg |-> LessonProgressLessonMsg] }
      [] model = "QuizAttempt" ->
           { [field |-> "user", table |-> "users", msg |-> QuizAttemptUserMsg],
             [field |-> "quiz", table |-> "quizzes", msg |-> QuizAttemptQuizMsg] }
      [] model = "ChecklistRun" ->
           { [field |-> "template", table |-> "templates", msg |-> ChecklistRunTemplateMsg],
             [field |-> "performed_by", table |-> "users", msg |-> ChecklistRunPerformerMsg],
             [field |-> "branch", table |-> "branches", msg |-> ChecklistRunBranchMsg],
             [field |-> "approved_by", table |-> "users", msg |-> ChecklistRunApproverMsg] }
      [] model = "Certificate" ->
           { [field |-> "user", table |-> "users", msg |-> CertificateUserMsg],
             [field |-> "course", table |-> "courses", msg |-> CertificateCourseMsg],
             [field |-> "path", table |-> "paths", msg |-> CertificatePathMsg] }
      [] model = "Assignment" ->
           { [field |-> "course", table |-> "courses", msg |-> AssignmentCourseMsg],
             [field |-> "path", table |-> "paths", msg |-> AssignmentPathMsg],
             [field |-> "target_user", table |-> "users", msg |-> AssignmentUserMsg],
             [field |-> "target_branch", table |-> "branches", msg |-> AssignmentBranchMsg],
             [field |-> "target_role", table |-> "roles", msg |-> AssignmentRoleMsg] }

\* the non-null relations of obj whose tenant is not obj's tenant
Mismatched(model, obj) ==
    {r \in Relations(model) :
        obj[r.field] # None /\ TenantOf(r.table, obj[r.field]) # obj.tenant}

\* the failures of the checks that are not tenant checks and run before them
ShapeMsgs ==
    {CertificateOneOfMsg, AssignmentCourseKindMsg, AssignmentPathKindMsg, AssignmentTargetMsg}

\* C2: a LessonProgress, QuizAttempt, ChecklistRun, Certificate or Assignment
\* that passes clean() has the tenant of every non-null entity it references
\* through the listed relations; an instance with a mismatched relation
\* fails, and unless a check of its shape has failed first the message is
\* the one naming a mismatched relation (the one, when a single relation is
\* mismatched).
C2_ProgressTenantsMatch ==
    \A model \in {"LessonProgress", "QuizAttempt", "ChecklistRun", "Certificate", "Assignment"} :
        WasCleaned(model) =>
            LET bad == Mismatched(model, last.obj) IN
            /\ last.error = OK => bad = {}
            /\ bad # {} => last.error # OK
            /\ (bad # {} /\ last.error \notin ShapeMsgs) => \E r \in bad : last.error = r.msg
            /\ \A r \in Relations(model) : last.error = r.msg => r \in bad

\* a checklist run whose approver alone is of another tenant was refused
\* with the approver message
C2_Witness ==
    /\ WasCleaned("ChecklistRun")
    /\ \E r \in Mismatched("ChecklistRun", last.obj) :
          r.field = "approved_by" /\ Mismatched("ChecklistRun", last.obj) = {r}
    /\ last.error = ChecklistRunApproverMsg

\* ---- C3
\* C3: an instance that passes clean() has the tenant of ALL the entities it
\* references, the optional links of a Lesson, the branches of a Course or a
\* LearningPath and the creator of an Assignment included.
C3_AllReferencesChecked ==
    /\ (WasCleaned("Lesson") /\ last.error = OK) =>
          \A f \in {"sop", "checklist_template", "quiz"} :
              last.obj[f] # None =>
                  TenantOf(CASE f = "sop" -> "sops"
                             [] f = "checklist_template" -> "templates"
                             [] f = "quiz" -> "quizzes", last.obj[f]) = last.obj.tenant
    /\ ((WasCleaned("Course") \/ WasCleaned("LearningPath")) /\ last.error = OK) =>
          \A b \in last.obj.branches : TenantOf("branches", b) = last.obj.tenant
    /\ (WasCleaned("Assignment") /\ last.error = OK) =>
          (last.obj.created_by # None =>
              TenantOf("users", last.obj.created_by) = last.obj.tenant)

\* ---- C4
ExactlyOneContent(obj) == (obj.course = None) # (obj.path = None)

\* user, course and path (when set) all have obj's tenant
ContentTenantsMatch(obj) ==
    /\ TenantOf("users", obj.user) = obj.tenant
    /\ obj.course # None => TenantOf("courses", obj.course) = obj.tenant
    /\ obj.path # None => TenantOf("paths", obj.path) = obj.tenant

\* C4: clean() of an Enrollment or a Certificate fails with the model's
\* "exactly one of course or path" message when course and path are both
\* null or both set, and succeeds when exactly one is set and all tenants
\* match.
C4_ExactlyOneOfCourseOrPath ==
    /\ WasCleaned("Enrollment") =>
          /\ ~ExactlyOneContent(last.obj) => last.error = EnrollmentOneOfMsg
          /\ (ExactlyOneContent(last.obj) /\ ContentTenantsMatch(last.obj)) => last.error = OK
    /\ WasCleaned("Certificate") =>
          /\ ~ExactlyOneContent(last.obj) => last.error = CertificateOneOfMsg
          /\ (ExactlyOneContent(last.obj) /\ ContentTenantsMatch(last.obj)) => last.error = OK

\* a certificate naming both a course and a path was refused
C4_Witness ==
    /\ WasCleaned("Certificate")
    /\ last.obj.course # None /\ last.obj.path # None
    /\ last.error = CertificateOneOfMsg

\* ---- C5
\* the number of targets, counted from the three fields themselves
TargetCount(obj) ==
    (IF obj.target_user # None THEN 1 ELSE 0) + (IF obj.target_branch # None THEN 1 ELSE 0)
    + (IF obj.target_role # None THEN 1 ELSE 0)

\* C5: clean() of an Assignment with 0, 2 or 3 targets fails, and with
\* exactly one target it does not fail on the target check.
C5_ExactlyOneTarget ==
    WasCleaned("Assignment") =>
        /\ TargetCount(last.obj) # 1 => last.error # OK
        /\ TargetCount(last.obj) = 1 => last.error # AssignmentTargetMsg

\* an assignment to a user and a role at once was refused by the target check
C5_Witness ==
    /\ WasCleaned("Assignment")
    /\ last.obj.target_user # None /\ last.obj.target_role # None
    /\ last.obj.target_branch = None
    /\ last.error = AssignmentTargetMsg

\* ---- C6
\* C6: clean() of an Assignment of kind course fails if course is null or
\* path is set, and of kind path if path is null or course is set; one
\* that passes has exactly the content its kind names.
C6_KindNamesContent ==
    WasCleaned("Assignment") =>
        /\ (last.obj.kind = "course" /\ (last.obj.course = None \/ last.obj.path # None))
              => last.error = AssignmentCourseKindMsg
        /\ (last.obj.kind = "path" /\ (last.obj.path = None \/ last.obj.course # None))
              => last.error = AssignmentPathKindMsg
        /\ (last.error = OK /\ last.obj.kind = "course")
              => (last.obj.course # None /\ last.obj.path = None)
        /\ (last.error = OK /\ last.obj.kind = "path")
              => (last.obj.path # None /\ last.obj.course = None)

\* a path assignment that also names a course was refused
C6_Witness ==
    /\ WasCleaned("Assignment")
    /\ last.obj.kind = "path" /\ last.obj.path # None /\ last.obj.course # None
    /\ last.error = AssignmentPathKindMsg

\* ---- C7
\* C7: an Assignment that passes clean() has exactly one of course and path
\* set, whatever its kind holds.
C7_AssignmentExactlyOneContent ==
    (WasCleaned("Assignment") /\ last.error = OK) => ExactlyOneContent(last.obj)

\* ---- C9
\* user and the scored entity have obj's tenant
C9_TenantsMatch(obj, field, table) ==
    TenantOf("users", obj.user) = obj.tenant /\ TenantOf(table, obj[field]) = obj.tenant

\* C9: with all tenants matching, clean() of a LessonProgress fails iff
\* percent > 100 and of a QuizAttempt iff score_percent > 100: 100 passes,
\* 101 fails.
C9_PercentBound ==
    /\ (WasCleaned("LessonProgress") /\ C9_TenantsMatch(last.obj, "lesson", "lessons")) =>
          /\ last.error # OK <=> last.obj.percent > 100
          /\ last.error # OK => last.error = PercentMsg
    /\ (WasCleaned("QuizAttempt") /\ C9_TenantsMatch(last.obj, "quiz", "quizzes")) =>
          /\ last.error # OK <=> last.obj.score_percent > 100
          /\ last.error # OK => last.error = ScorePercentMsg

\* a quiz attempt with matching tenants and a score of exactly 100 passed
C9_Witness ==
    /\ WasCleaned("QuizAttempt")
    /\ C9_TenantsMatch(last.obj, "quiz", "quizzes")
    /\ last.obj.score_percent = 100
    /\ last.error = OK

\* ---- C8
\* the parent and the order (or version) of a row of each ordered table
SiblingKey(t) ==
    CASE t = "modules" -> {"course", "order"}
      [] t = "lessons" -> {"module", "order"}
      [] t = "questions" -> {"quiz", "order"}
      [] t = "items" -> {"template", "order"}
      [] t = "lpcs" -> {"path", "order"}
      [] t = "sopversions" -> {"sop", "version"}

TableOf(model) ==
    CASE model = "Module" -> "modules"
      [] model = "Lesson" -> "lessons"
      [] model = "Question" -> "questions"
      [] model = "ChecklistItem" -> "items"
      [] model = "LearningPathCourse" -> "lpcs"
      [] model = "SOPVersion" -> "sopversions"

SameKey(t, r1, r2) == \A f \in SiblingKey(t) : r1[f] = r2[f]

OrderConstraintNames ==
    {"uq_module_course_order", "uq_lesson_module_order", "uq_question_quiz_order",
     "uq_checklist_item_order", "uq_path_course_order", "uq_sop_version"}

\* C8: in every persisted state no two rows of an ordered table have the
\* same parent and the same order (version, for SOPVersion); a write that
\* is accepted is stored, and a write refused by an order constraint is one
\* whose parent and order another row holds, and it is not stored.
C8_SiblingOrderUnique ==
    /\ \A t \in OrderedTables :
          \A i, j \in Pks(db[t]) : i # j => ~SameKey(t, db[t][i], db[t][j])
    /\ last.op = "save" =>
          LET t == TableOf(last.model)
              at == IF last.pk = None THEN Len(db[t]) ELSE last.pk
          IN /\ last.error = OK => (at \in Pks(db[t]) /\ db[t][at] = last.obj)
             /\ last.error \in OrderConstraintNames =>
                   /\ \E i \in Pks(db[t]) : i # last.pk /\ SameKey(t, db[t][i], last.obj)
                   /\ last.pk # None => db[t][last.pk] # last.obj

\* a module write was refused for its (course, order) while two modules of
\* different courses hold the same order
C8_Witness ==
    /\ last.op = "save" /\ last.model = "Module"
    /\ last.error = "uq_module_course_order"
    /\ \E i, j \in Pks(db.modules) :
          /\ db.modules[i].course # db.modules[j].course
          /\ db.modules[i].order = db.modules[j].order

\* ---- C10
\* C10: publish() can be called on an SOPVersion instance in any state, any
\* number of times, without error; after a call published_at is the time of
\* that call, whatever it was before, and sop, version and content (and the
\* instance's pk) are as before the call.
C10_PublishSetsNow ==
    /\ sopv # NoInstance => ENABLED Publish
    /\ last.op = "publish" =>
          /\ last.error = OK
          /\ sopv.published_at = now
          /\ sopv.sop = last.obj.sop
          /\ sopv.version = last.obj.version
          /\ sopv.content = last.obj.content
          /\ sopv.pk = last.pk

\* publish() was called on an instance published at an earlier time, and
\* the earlier timestamp was overwritten
C10_Witness ==
    /\ last.op = "publish"
    /\ last.obj.published_at # None
    /\ last.obj.published_at < now
    /\ sopv.published_at = now

C13_UserNeedsTenant ==
    WasCleaned("User") =>
        (last.error = UserTenantMsg <=> (~last.obj.is_superuser /\ last.obj.tenant = None))
        /\ last.error \in {OK, UserTenantMsg}

\* a superuser without a tenant has passed validation
C13_Witness ==
    /\ WasCleaned("User")
    /\ last.obj.is_superuser
    /\ last.obj.tenant = None
    /\ last.error = OK

\* C14: a UserBranch that passes validation has the tenant of its user equal
\* to the tenant of its branch, a UserRole likewise for its role, and an
\* Enrollment has the tenant of its user, also when the user has no tenant.
C14_MembershipTenantsMatch ==
    /\ (WasCleaned("UserBranch") /\ last.error = OK) =>
           db.users[last.obj.user].tenant = db.branches[last.obj.branch].tenant
    /\ (WasCleaned("UserRole") /\ last.error = OK) =>
           db.users[last.obj.user].tenant = db.roles[last.obj.role].tenant
    /\ (WasCleaned("Enrollment") /\ last.error = OK) =>
           db.users[last.obj.user].tenant = last.obj.tenant

\* a write of an instance of model has been attempted; it is last.obj
WasSaved(model) == last.op = "save" /\ last.model = model

\* C15: validation of a ChecklistItemResult fails exactly when the template
\* of its item differs from the template of its run, and in every persisted
\* state there is at most one result for a run and an item.
C15_ResultOfRunTemplate ==
    /\ WasSaved("ChecklistItemResult") =>
          (last.error = ResultTemplateMsg
             <=> db.items[last.obj.item].template # db.runs[last.obj.run].template)
    /\ \A i, j \in Pks(db.results) :
          (db.results[i].run = db.results[j].run /\ db.results[i].item = db.results[j].item)
             => i = j

\* a second result of another run has been stored, and a result whose item
\* is of another template than its run was then refused
C15_Witness ==
    /\ WasSaved("ChecklistItemResult")
    /\ last.error = ResultTemplateMsg
    /\ Len(db.results) = 2

\* another row than pk of d holds an enrollment of obj's user in obj's course,
\* or in obj's path
Enrolled(d, pk, obj) ==
    \E i \in Pks(d.enrollments) \ {pk} :
      /\ d.enrollments[i].user = obj.user
      /\ \/ obj.course # None /\ d.enrollments[i].course = obj.course
         \/ obj.path # None /\ d.enrollments[i].path = obj.path

\* another row than pk of d holds the progress of obj's user in obj's lesson
Progressed(d, pk, obj) ==
    \E i \in Pks(d.lessonprogress) \ {pk} :
      /\ d.lessonprogress[i].user = obj.user
      /\ d.lessonprogress[i].lesson = obj.lesson

EnrollmentsUnique ==
    \A i \in Pks(db.enrollments) : ~Enrolled(db, i, db.enrollments[i])

LessonProgressUnique ==
    \A i \in Pks(db.lessonprogress) : ~Progressed(db, i, db.lessonprogress[i])

RaceOnKey(a, b) ==
    /\ a.model = b.model
    /\ \/ /\ a.model = "Module"
          /\ a.obj.course = b.obj.course
          /\ a.obj.order = b.obj.order
       \/ /\ a.model = "Enrollment"
          /\ a.obj.user = b.obj.user
          /\ \/ a.obj.course # None /\ a.obj.course = b.obj.course
             \/ a.obj.path # None /\ a.obj.path = b.obj.path

ModulesUnique ==
    \A i, j \in Pks(db.modules) :
      (db.modules[i].course = db.modules[j].course /\ db.modules[i].order = db.modules[j].order)
         => i = j

\* C12: when two concurrent writers have each passed validation and write
\* rows with the same unique key, under every interleaving one write is
\* stored and the other ends in a write failure; no persisted state holds
\* both rows.
C12_OneWriterWins ==
    /\ ModulesUnique
    /\ EnrollmentsUnique
    /\ \A v, w \in Writers :
         (/\ v # w
          /\ writers[v].pc \in {"saved", "failed"}
          /\ writers[w].pc \in {"saved", "failed"}
          /\ RaceOnKey(writers[v], writers[w]))
         => writers[v].pc # writers[w].pc

\* both writers passed validation of an enrollment of the same user in the
\* same course; the first write was stored and the second was refused
C12_Witness ==
    /\ writers[1].pc = "saved"
    /\ writers[2].pc = "failed"
    /\ writers[1].model = "Enrollment"
    /\ writers[1].obj.course # None
    /\ RaceOnKey(writers[1], writers[2])
    /\ writers[2].error = "uq_enroll_user_course"

\* the foreign keys from a row that carries a tenant to a row that carries one
TenantLinks == {fk \in ForeignKeys : fk.table \in TenantKeyed /\ fk.to \in TenantKeyed}

\* C17: in every state reached by creates and updates that each passed
\* validation, the tenant of every persisted row equals the tenant of every
\* row it references, also after the tenant of a Course, a Module or a User
\* that has dependants was changed.
C17_TenantsConsistent ==
    \A fk \in TenantLinks :
      \A i \in Pks(db[fk.table]) :
        db[fk.table][i][fk.field] # None
          => db[fk.table][i].tenant = db[fk.to][db[fk.table][i][fk.field]].tenant

\* C18: the tenant check runs only when validation is called. A write that
\* skips validation is refused by storage only for a duplicate (course,
\* order), and is stored otherwise, whatever its tenant: a persisted Module
\* whose tenant differs from its Course's tenant is reachable.
C18_RawWriteSkipsTenantCheck ==
    /\ (last.op = "bulk_create" /\ last.error = OK)
          => db.modules[Len(db.modules)] = last.obj
    /\ (last.op = "bulk_create" /\ last.error # OK)
          => /\ last.error = "uq_module_course_order"
             /\ \E i \in Pks(db.modules) :
                  /\ db.modules[i].course = last.obj.course
                  /\ db.modules[i].order = last.obj.order
    /\ (WasSaved("Module") /\ last.obj.tenant # db.courses[last.obj.course].tenant)
          => last.error = ModuleTenantMsg

\* a module of another tenant than its course has been stored by a raw write
C18_Witness ==
    /\ last.op = "bulk_create"
    /\ last.error = OK
    /\ last.obj.tenant # db.courses[last.obj.course].tenant
    /\ db.modules[Len(db.modules)] = last.obj

\* C19: in every state reached by validated creates followed by deletes of
\* other rows, every persisted Certificate references exactly one of course
\* and path, also after the Course or LearningPath it was issued for is
\* deleted.
C19_CertificateKeepsContent ==
    \A i \in Pks(db.certificates) :
      (db.certificates[i].course = None) # (db.certificates[i].path = None)

\* every foreign key of a persisted row is null or the key of a persisted
\* row, and every branch of a many-to-many set is persisted
NoDanglingKey ==
    /\ \A fk \in ForeignKeys :
         \A i \in Pks(db[fk.table]) :
           db[fk.table][i][fk.field] \in Ref(db[fk.to])
    /\ \A t \in {"courses", "paths"} :
         \A i \in Pks(db[t]) : db[t][i].branches \subseteq Pks(db.branches)

\* the optional links the claim names
OptionalLinks ==
    {fk \in ForeignKeys :
       \/ fk.table = "lessons" /\ fk.field \in {"sop", "checklist_template", "quiz"}
       \/ fk.table = "runs" /\ fk.field \in {"branch", "approved_by"}}

\* row links to pk by fk and by no key that cascades: the approver of a run
\* who is not also its performer
OnlyLinked(fk, row, pk) ==
    /\ row[fk.field] = pk
    /\ fk.field = "approved_by" => row.performed_by # pk

\* C20: deleting a Tenant removes every Branch, Role, User and tenant-owned
\* row of that tenant together with their children, so that no persisted
\* row references a deleted one. Deleting the SOP, ChecklistTemplate or Quiz
\* of a Lesson, or the Branch or the approver of a ChecklistRun, keeps the
\* linking row, sets that link to null and changes no other field of it.
C20_CascadeAndSetNull ==
    /\ []NoDanglingKey
    /\ [][last'.op = "delete" =>
            /\ last'.model = "tenants" =>
                  \A t \in TenantKeyed :
                    \A i \in Pks(db[t]) :
                      db[t][i].tenant = last'.pk => i \notin Pks(db'[t])
            /\ \A fk \in OptionalLinks :
                  last'.model = fk.to =>
                    \A i \in Pks(db[fk.table]) :
                      OnlyLinked(fk, db[fk.table][i], last'.pk) =>
                        /\ i \in Pks(db'[fk.table])
                        /\ db'[fk.table][i] = [db[fk.table][i] EXCEPT ![fk.field] = None]]_vars

\* the SOP of a lesson was deleted and the lesson stayed with its link null
\* and its other links kept; then the tenant of another lesson was deleted
C20_Witness ==
    /\ last.op = "delete"
    /\ last.model = "tenants"
    /\ db.sops[2] = Deleted("request")
    /\ ~IsDeleted(db.lessons[1])
    /\ db.lessons[1].sop = None
    /\ db.lessons[1].quiz = 1
    /\ IsDeleted(db.lessons[2])
    /\ \A i \in Pks(db.modules) : db.modules[i].tenant # last.pk

\* the violations of an assignment, in the order the claim gives them
AssignmentViolations(obj) ==
    << [msg |-> AssignmentCourseKindMsg,
        broken |-> obj.kind = "course" /\ (obj.course = None \/ obj.path # None)],
       [msg |-> AssignmentPathKindMsg,
        broken |-> obj.kind = "path" /\ (obj.path = None \/ obj.course # None)],
       [msg |-> AssignmentTargetMsg, broken |-> TargetCount(obj) # 1],
       [msg |-> AssignmentCourseMsg, broken |-> TenantOf("courses", obj.course) \notin {None, obj.tenant}],
       [msg |-> AssignmentPathMsg, broken |-> TenantOf("paths", obj.path) \notin {None, obj.tenant}],
       [msg |-> AssignmentUserMsg,
        broken |-> obj.target_user # None /\ TenantOf("users", obj.target_user) # obj.tenant],
       [msg |-> AssignmentBranchMsg,
        broken |-> TenantOf("branches", obj.target_branch) \notin {None, obj.tenant}],
       [msg |-> AssignmentRoleMsg,
        broken |-> TenantOf("roles", obj.target_role) \notin {None, obj.tenant}] >>

\* the positions of the violations that hold
Broken(violations) == {i \in DOMAIN violations : violations[i].broken}

\* C24: clean() of an Assignment reports one failure, that of the earliest
\* violated check in the order kind/content, target count, then the tenant of
\* the course, the path, the user, the branch and the role; it passes when no
\* check is violated.
C24_EarliestViolationReported ==
    WasCleaned("Assignment") =>
        LET violations == AssignmentViolations(last.obj)
            broken == Broken(violations)
        IN /\ broken = {} <=> last.error = OK
           /\ broken # {} =>
                \E i \in broken :
                  /\ \A j \in broken : i <= j
                  /\ last.error = violations[i].msg

\* an assignment with a kind/content mismatch, no target and a course of
\* another tenant was refused with the kind/content message
C24_Witness ==
    /\ WasCleaned("Assignment")
    /\ Cardinality(Broken(AssignmentViolations(last.obj))) >= 3
    /\ 1 \in Broken(AssignmentViolations(last.obj))
    /\ 3 \in Broken(AssignmentViolations(last.obj))
    /\ 4 \in Broken(AssignmentViolations(last.obj))
    /\ last.error = AssignmentCourseKindMsg

\* C22: clean() of a QuizAttempt whose tenant is that of its user and of its
\* quiz passes for every passed in {TRUE, FALSE} and every score_percent in
\* 0..100, whatever the passing_score of the quiz, and leaves passed as it
\* was given.
C22_PassedStoredAsGiven ==
    /\ []((WasCleaned("QuizAttempt") /\ C9_TenantsMatch(last.obj, "quiz", "quizzes")
           /\ last.obj.score_percent <= 100) => last.error = OK)
    /\ [][(last'.op = "clean" /\ last'.model = "QuizAttempt")
            => last'.obj.passed = last.obj.passed]_vars

\* an attempt marked passed with a score below the quiz's passing_score, and
\* tenants that match, passed validation
C22_Witness ==
    /\ WasCleaned("QuizAttempt")
    /\ C9_TenantsMatch(last.obj, "quiz", "quizzes")
    /\ last.obj.passed
    /\ last.obj.score_percent < db.quizzes[last.obj.quiz].passing_score
    /\ last.error = OK

\* C23: a Quiz that passes validation has a passing_score within 0..100; a
\* Quiz with a passing_score above 100 is rejected.
C23_PassingScoreBound ==
    WasCleaned("Quiz") => (last.error = OK <=> last.obj.passing_score <= 100)

====
